---- MODULE Spec2Model ----
(***************************************************************************)
(* State-machine model of the PBMPM2D particle simulation                  *)
(* (src/pbmpm/src/main.rs): the four Update systems update_window_size,    *)
(* update_particles, update_grid and resolve_collisions, run once per     *)
(* frame by the Bevy schedule.                                             *)
(*                                                                         *)
(* Numbers.  The program computes in f32.  The model computes in signed    *)
(* fixed point with Q units per 1.0 (three decimal digits): every product  *)
(* and quotient is rounded to the nearest multiple of 1/Q, the square root *)
(* is rounded down.  A vector is a record [x, y] of such numbers.  Where    *)
(* f32 keeps its relative precision and fixed point would not (the length  *)
(* of a very long or very short vector), the operand is rescaled first.    *)
(***************************************************************************)
EXTENDS Integers, Sequences, FiniteSets, TLC

\* Fixed-point scale: the integer n stands for the real number n / Q.
Q == 10 * 10 * 10

Abs(a) == IF a < 0 THEN -a ELSE a

Max(a, b) == IF a > b THEN a ELSE b

\* Integer quotient rounded toward zero.
TDiv(a, b) ==
    IF (a < 0) = (b < 0) THEN Abs(a) \div Abs(b) ELSE -(Abs(a) \div Abs(b))

\* Integer quotient rounded to the nearest integer, halves away from zero.
RDiv(a, b) ==
    LET q == (2 * Abs(a) + Abs(b)) \div (2 * Abs(b))
    IN  IF (a < 0) = (b < 0) THEN q ELSE -q

\* f32 product a * b and quotient a / b, in fixed point.
MulQ(a, b) == RDiv(a * b, Q)

DivQ(a, b) == RDiv(a * Q, b)

\* f32::signum: 1.0 for a >= +0.0, -1.0 for a negative number.
Signum(a) == IF a < 0 THEN -Q ELSE Q

RECURSIVE SqrtIter(_, _, _)
\* Largest r in lo..hi with r * r <= n (bisection).
SqrtIter(n, lo, hi) ==
    IF lo >= hi THEN lo
    ELSE LET mid == (lo + hi + 1) \div 2
         IN  IF mid * mid <= n THEN SqrtIter(n, mid, hi)
             ELSE SqrtIter(n, lo, mid - 1)

ISqrt(n) == SqrtIter(n, 0, 46340)

Vec(x, y) == [x |-> x, y |-> y]

ZERO == Vec(0, 0)

VAdd(a, b) == Vec(a.x + b.x, a.y + b.y)

VSub(a, b) == Vec(a.x - b.x, a.y - b.y)

\* Vec2 * f32
VScale(a, s) == Vec(MulQ(a.x, s), MulQ(a.y, s))

\* Vec2 / f32
VDiv(a, s) == Vec(DivQ(a.x, s), DivQ(a.y, s))

Dot(a, b) == MulQ(a.x, b.x) + MulQ(a.y, b.y)

\* Vec2::length.  Operands too large for their squares to fit a 32-bit
\* integer are scaled down by k first, which costs k units of precision.
Length(a) ==
    LET m == Max(Abs(a.x), Abs(a.y))
        k == m \div 30000 + 1
    IN  k * ISqrt(TDiv(a.x, k) * TDiv(a.x, k) + TDiv(a.y, k) * TDiv(a.y, k))

\* Vec2::normalize_or_zero: a * (1 / |a|), the zero vector when the length
\* is zero.  f32 keeps its relative precision for a short vector, so a short
\* operand is scaled up by m before its length is taken.
NormalizeOrZero(a) ==
    LET m  == Max(Abs(a.x), Abs(a.y))
        up == IF m = 0 THEN 1 ELSE Max(1, 30000 \div m)
        b  == Vec(a.x * up, a.y * up)
        len == Length(b)
    IN  IF len > 0 THEN VDiv(b, len) ELSE ZERO

\* Vec2::clamp_length_max: max * (v / |v|) when |v| > max, else v.
ClampLengthMax(v, max) ==
    LET len == Length(v)
    IN  IF len > max THEN Vec(MulQ(max, DivQ(v.x, len)), MulQ(max, DivQ(v.y, len)))
        ELSE v

(***************************************************************************)
(* Resources inserted by main, and the sizes the model is explored with.   *)
(***************************************************************************)

\* Gravity(Vec2::new(0.0, -9.8))
Gravity == Vec(0, -9800)

\* BounceDampening(0.8)
BounceDampening == 800

\* Grid::new(20.0)
CellSize == 20000

\* Sprite custom_size: Some(Vec2::splat(5.0)) for every particle.
SpriteSize == 5000

\* let restitution = 0.8
Restitution == 800

\* The rest deadband of the vertical bounce: |v.y| < 0.1
Deadband == 100

\* WindowSize { width: 400.0, height: 300.0 }
InitWindow == [width |-> 400000, height |-> 300000]

\* Particles in the world (the program spawns 10).
NumParticles == 3

\* Frames explored.
MaxFrames == 2

Entities == 1 .. NumParticles

\* Frame times Time::delta_secs can report (seconds, fixed point).
DeltaInputs == {10, 250}

\* WindowResized events (width, height) that can be queued before a frame.
ResizeInputs == {<<>>, <<[width |-> 40000, height |-> 30000]>>}

\* Position and velocity a particle can start with: near the lower right
\* corner of the world, the first two on the floor and touching, the second
\* at rest, the third with the velocity setup gives its first particle.
ParticleInputs ==
    << [pos |-> Vec(390000, -297500), vel |-> Vec(-44000, 0)],
       [pos |-> Vec(395000, -297500), vel |-> Vec(0, 0)],
       [pos |-> Vec(397500, -296500), vel |-> Vec(-25000, 50000)] >>

\* add_systems(Update, (update_window_size, update_particles, update_grid,
\* resolve_collisions))
Systems == <<"update_window_size", "update_particles", "update_grid",
             "resolve_collisions">>

Range(s) == {s[i] : i \in DOMAIN s}

\* The three systems that share the particles (and, update_grid, the grid).
Stages == SelectSeq(Systems, LAMBDA s : s # "update_window_size")

\* The orders in which the executor may run the systems of the tuple: the
\* three stages in any order.  update_window_size shares only WindowSize,
\* with update_particles alone; it is the first system of the tuple and no
\* system it conflicts with is running when the schedule starts, so it runs
\* first (run after update_particles it acts as an event read a frame later).
ScheduleOrders ==
    {<<"update_window_size">> \o o :
        o \in {p \in [DOMAIN Stages -> Range(Stages)] : Range(p) = Range(Stages)}}

\* The orders in which a query may iterate the particle entities: the order
\* in which they were spawned, or its reverse.
QueryOrders ==
    {[i \in Entities |-> i], [i \in Entities |-> NumParticles + 1 - i]}

\* The particles after setup: entity e holds one of ParticleInputs, and
\* the entities are spawned in the order of ParticleInputs.
ParticleSets ==
    {[e \in Entities |-> ParticleInputs[f[e]]] :
        f \in {g \in [Entities -> DOMAIN ParticleInputs] :
                  \A e \in Entities : e = 1 \/ g[e - 1] <= g[e]}}

VARIABLES
    window_size,          \* Res<WindowSize>: half extents width, height
    particles,            \* entity -> [pos, vel] (Transform.translation.xy, Particle.velocity)
    cells,                \* Grid.cells: (i32, i32) -> [velocity, mass]
    previous_velocities,  \* Grid.previous_velocities: (i32, i32) -> Vec2
    delta,                \* Time::delta_secs of the current frame
    resize_events,        \* WindowResized events not yet read
    query,                \* order in which queries iterate the particle entities
    schedule,             \* order in which the executor runs the systems
    frame,                \* number of the current frame
    pc,                   \* how many systems of schedule have run in this frame
    integ,                \* per entity, what the last update_particles did to it
    before,               \* the particles as the last resolve_collisions found them
    log,                  \* the pairs the last resolve_collisions processed
    lastCells             \* Grid.cells as the last update_grid found them

vars == <<window_size, particles, cells, previous_velocities, delta,
          resize_events, query, schedule, frame, pc, integ, before, log,
          lastCells>>

EmptyMap == [c \in {} |-> ZERO]

(***************************************************************************)
(* update_window_size                                                      *)
(***************************************************************************)

RECURSIVE ReadResizeEvents(_, _)
\* for event in resize_events.read() { width = event.width / 2.0; ... }
ReadResizeEvents(ws, events) ==
    IF events = <<>> THEN ws
    ELSE ReadResizeEvents(
            [width  |-> DivQ(Head(events).width, 2 * Q),
             height |-> DivQ(Head(events).height, 2 * Q)],
            Tail(events))

(***************************************************************************)
(* update_particles                                                        *)
(***************************************************************************)

\* Reflect with the dampening factor left out.
ReflectWithoutDamping(v) == -v

\* particle.velocity.x *= -bounce_dampening.0 (and the same for y)
Reflect(v) == MulQ(v, -BounceDampening)

\* The body of the loop of update_particles for one particle p; the result
\* holds the new particle and what happened on the way.
Integrate(p, ws, dt) ==
    LET v1       == VAdd(p.vel, VScale(Gravity, dt))
        half_x   == DivQ(SpriteSize, 2 * Q)
        half_y   == DivQ(SpriteSize, 2 * Q)
        cand     == VAdd(p.pos, VScale(v1, dt))
        bounds_x == ws.width - half_x
        bounds_y == ws.height - half_y
        bx       == Abs(cand.x) > bounds_x
        by       == Abs(cand.y) > bounds_y
        new_x    == IF bx THEN MulQ(bounds_x, Signum(cand.x)) ELSE cand.x
        new_y    == IF by THEN MulQ(bounds_y, Signum(cand.y)) ELSE cand.y
        vx2      == IF bx THEN Reflect(v1.x) ELSE v1.x
        vy2      == IF by THEN Reflect(v1.y) ELSE v1.y
        dead     == by /\ Abs(vy2) < Deadband
        vy3      == IF dead THEN 0 ELSE vy2
        max_velocity == MulQ(Max(ws.width, ws.height), 2 * Q)
        v3       == Vec(vx2, vy3)
    IN  [pos     |-> Vec(new_x, new_y),
         vel     |-> ClampLengthMax(v3, max_velocity),
         pre     |-> v1,
         bx      |-> bx,
         by      |-> by,
         dead    |-> dead,
         clamped |-> Length(v3) > max_velocity]

(***************************************************************************)
(* Grid and update_grid                                                    *)
(***************************************************************************)

\* Grid::world_to_cell: (position / cell_size) as i32, which truncates
\* toward zero.
WorldToCell(position) ==
    <<TDiv(position.x, CellSize), TDiv(position.y, CellSize)>>

\* Grid::clear with cells.clear() left out.
GridClearKeepsCells(cs) ==
    [previous_velocities |-> [c \in DOMAIN cs |-> cs[c].velocity],
     cells               |-> cs]

\* Grid::clear: previous_velocities takes the velocity of every cell, then
\* cells is emptied.  The result is the pair of the two maps.
GridClear(cs) ==
    [previous_velocities |-> [c \in DOMAIN cs |-> cs[c].velocity],
     cells               |-> EmptyMap]

\* world_pos / cell_size - Vec2::new(cell_idx.0 as f32, cell_idx.1 as f32)
CellOffset(world_pos) ==
    LET cell_idx == WorldToCell(world_pos)
    IN  Vec(DivQ(world_pos.x, CellSize) - cell_idx[1] * Q,
            DivQ(world_pos.y, CellSize) - cell_idx[2] * Q)

\* The three quadratic weights of one axis for the in-cell offset f:
\* 0.5 * (0.5 - f) * (0.5 - f), 0.75 - f * f, 0.5 * (0.5 + f) * (0.5 + f).
Weights(f) ==
    <<MulQ(MulQ(Q \div 2, Q \div 2 - f), Q \div 2 - f),
      (3 * Q) \div 4 - MulQ(f, f),
      MulQ(MulQ(Q \div 2, Q \div 2 + f), Q \div 2 + f)>>

\* weights[gx].x * weights[gy].y, for gx, gy in 0..2 (here 1..3).
Weight(world_pos, gx, gy) ==
    LET off == CellOffset(world_pos)
    IN  MulQ(Weights(off.x)[gx], Weights(off.y)[gy])

\* The order of the two nested loops: gx outer, gy inner.
Neighbourhood ==
    <<<<1, 1>>, <<1, 2>>, <<1, 3>>, <<2, 1>>, <<2, 2>>, <<2, 3>>,
      <<3, 1>>, <<3, 2>>, <<3, 3>>>>

\* grid.cells.entry(c).or_insert(GridCell::default())
EntryOrInsert(cs, c) ==
    IF c \in DOMAIN cs THEN cs[c] ELSE [velocity |-> ZERO, mass |-> 0]

RECURSIVE ScatterParticle(_, _, _)
\* The inner loops for one particle p, from the k-th neighbour on.
ScatterParticle(cs, p, k) ==
    IF k > Len(Neighbourhood) THEN cs
    ELSE LET gx       == Neighbourhood[k][1]
             gy       == Neighbourhood[k][2]
             cell_idx == WorldToCell(p.pos)
             weight   == Weight(p.pos, gx, gy)
             neighbor_cell == <<cell_idx[1] + gx - 2, cell_idx[2] + gy - 2>>
             cell     == EntryOrInsert(cs, neighbor_cell)
             new_cell == [mass     |-> cell.mass + MulQ(weight, Length(p.vel)),
                          velocity |-> VAdd(cell.velocity, VScale(p.vel, weight))]
         IN  ScatterParticle(
                [c \in DOMAIN cs \cup {neighbor_cell} |->
                    IF c = neighbor_cell THEN new_cell ELSE cs[c]],
                p, k + 1)

RECURSIVE Scatter(_, _, _)
\* for (transform, particle) in &query { ... }, over the entities of order.
Scatter(cs, ps, order) ==
    IF order = <<>> THEN cs
    ELSE Scatter(ScatterParticle(cs, ps[Head(order)], 1), ps, Tail(order))

\* Smooth with the previous velocity left out.
SmoothWithoutPrevious(cs, prev) ==
    [c \in DOMAIN cs |->
        IF cs[c].mass > 0
        THEN [mass     |-> cs[c].mass,
              velocity |-> VAdd(VScale(cs[c].velocity, Q \div 2), Gravity)]
        ELSE cs[c]]

\* The closing loop: a cell with mass > 0 is averaged with its previous
\* velocity and gets the gravity vector added.
Smooth(cs, prev) ==
    [c \in DOMAIN cs |->
        IF cs[c].mass > 0
        THEN LET prev_velocity == IF c \in DOMAIN prev THEN prev[c] ELSE ZERO
             IN  [mass     |-> cs[c].mass,
                  velocity |-> VAdd(VScale(VAdd(cs[c].velocity, prev_velocity), Q \div 2),
                                    Gravity)]
        ELSE cs[c]]

(***************************************************************************)
(* resolve_collisions                                                      *)
(***************************************************************************)

RECURSIVE PairsFrom(_, _, _)
\* The pairs (order[i], order[j]), j from j0 on.
PairsFrom(order, i, j) ==
    IF j > Len(order) THEN <<>>
    ELSE <<<<order[i], order[j]>>>> \o PairsFrom(order, i, j + 1)

RECURSIVE CombinationsFrom(_, _)
CombinationsFrom(order, i) ==
    IF i >= Len(order) THEN <<>>
    ELSE PairsFrom(order, i, i + 1) \o CombinationsFrom(order, i + 1)

\* IterCombinations fetched through twice.
IterCombinationsTwice(order) ==
    CombinationsFrom(order, 1) \o CombinationsFrom(order, 1)

\* Query::iter_combinations_mut::<2>: every pair of two distinct items of
\* the query once, the first before the second in the query's order.
IterCombinations(order) == CombinationsFrom(order, 1)

\* sprite.custom_size.unwrap_or(Vec2::splat(5.0)).x / 2.0
Radius == DivQ(SpriteSize, 2 * Q)

\* diff.normalize_or_zero() for the pair (pa, pb).
ContactNormal(pa, pb) == NormalizeOrZero(VSub(pb.pos, pa.pos))

\* Correction by the whole penetration instead of half of it.
CorrectionUnhalved(pa, pb) ==
    VScale(ContactNormal(pa, pb),
           Radius + Radius - Length(VSub(pb.pos, pa.pos)))

\* The positional correction of an overlapping pair:
\* normal * (penetration / 2.0).
Correction(pa, pb) ==
    LET distance     == Length(VSub(pb.pos, pa.pos))
        min_distance == Radius + Radius
        penetration  == min_distance - distance
    IN  VScale(ContactNormal(pa, pb), DivQ(penetration, 2 * Q))

\* transform_a.translation -= correction; transform_b.translation += correction
Separate(pa, pb, correction) ==
    [a |-> [pa EXCEPT !.pos = VSub(pa.pos, correction)],
     b |-> [pb EXCEPT !.pos = VAdd(pb.pos, correction)]]

\* (velocity_b - velocity_a).dot(normal)
VelocityAlongNormal(pa, pb) ==
    Dot(VSub(pb.vel, pa.vel), ContactNormal(pa, pb))

\* normal * (-(1.0 + restitution) * velocity_along_normal / 2.0)
Impulse(pa, pb) ==
    VScale(ContactNormal(pa, pb),
           DivQ(MulQ(-(Q + Restitution), VelocityAlongNormal(pa, pb)), 2 * Q))

\* ApplyImpulse taking the impulse from both particles.
ApplyImpulseSameSign(pa, pb, impulse) ==
    [a |-> [pa EXCEPT !.vel = VSub(pa.vel, impulse)],
     b |-> [pb EXCEPT !.vel = VSub(pb.vel, impulse)]]

\* particle_a.velocity -= impulse; particle_b.velocity += impulse
ApplyImpulse(pa, pb, impulse) ==
    [a |-> [pa EXCEPT !.vel = VSub(pa.vel, impulse)],
     b |-> [pb EXCEPT !.vel = VAdd(pb.vel, impulse)]]

\* ResolvePair without the test distance < min_distance.
ResolvePairUntested(pa, pb) ==
    IF VelocityAlongNormal(pa, pb) > 0
    THEN Separate(pa, pb, Correction(pa, pb))
    ELSE ApplyImpulse(Separate(pa, pb, Correction(pa, pb)).a,
                      Separate(pa, pb, Correction(pa, pb)).b, Impulse(pa, pb))

\* The body of the while loop for a pair that passed the dedup test: the
\* two particles after it.
ResolvePair(pa, pb) ==
    LET distance     == Length(VSub(pb.pos, pa.pos))
        min_distance == Radius + Radius
        moved        == Separate(pa, pb, Correction(pa, pb))
    IN  IF distance < min_distance
        THEN IF VelocityAlongNormal(pa, pb) > 0
             THEN moved
             ELSE ApplyImpulse(moved.a, moved.b, Impulse(pa, pb))
        ELSE [a |-> pa, b |-> pb]

\* if id_a == id_b || checked_pairs.contains(&(id_b, id_a)) { continue; }
Skipped(checked_pairs, id_a, id_b) ==
    id_a = id_b \/ <<id_b, id_a>> \in checked_pairs

RECURSIVE ResolveLoop(_, _, _, _)
\* The while loop over the pairs still to fetch; st holds the particles,
\* checked_pairs and the record of the pairs processed so far.
ResolveLoop(ps, checked_pairs, done, pairs) ==
    IF pairs = <<>> THEN [particles |-> ps, log |-> done]
    ELSE LET id_a == Head(pairs)[1]
             id_b == Head(pairs)[2]
         IN  IF Skipped(checked_pairs, id_a, id_b)
             THEN ResolveLoop(ps, checked_pairs, done, Tail(pairs))
             ELSE LET r == ResolvePair(ps[id_a], ps[id_b])
                  IN  ResolveLoop(
                        [ps EXCEPT ![id_a] = r.a, ![id_b] = r.b],
                        checked_pairs \cup {<<id_a, id_b>>},
                        Append(done, [a |-> id_a, b |-> id_b,
                                      pa |-> ps[id_a], pb |-> ps[id_b],
                                      qa |-> r.a, qb |-> r.b]),
                        Tail(pairs))

(***************************************************************************)
(* The schedule.  App::run runs the Update schedule once per frame.  Its   *)
(* four systems were added as a plain tuple, without chain() or any        *)
(* before/after constraint, so the order in which the executor runs them   *)
(* is not fixed by the program: schedule is one of ScheduleOrders, settled *)
(* when the schedule is built.  The three stages each take the particles,  *)
(* two of them mutably, so no two of them overlap: a system is one step.   *)
(***************************************************************************)

\* The systems that have run in the current frame.
Ran == {schedule[i] : i \in 1 .. pc}

\* System s is the next one the executor runs.
IsNext(s) == pc < Len(schedule) /\ schedule[pc + 1] = s

Init ==
    /\ window_size = InitWindow
    /\ particles \in ParticleSets
    /\ cells = EmptyMap
    /\ previous_velocities = EmptyMap
    /\ delta \in DeltaInputs
    /\ resize_events = <<>>
    /\ query \in QueryOrders
    /\ schedule \in ScheduleOrders
    /\ frame = 1
    /\ pc = 0
    /\ integ = [e \in Entities |-> Integrate(particles[e], window_size, 0)]
    /\ before = particles
    /\ log = <<>>
    /\ lastCells = EmptyMap

update_window_size ==
    /\ IsNext("update_window_size")
    /\ window_size' = ReadResizeEvents(window_size, resize_events)
    /\ resize_events' = <<>>
    /\ pc' = pc + 1
    /\ UNCHANGED <<particles, cells, previous_velocities, delta, query, schedule,
                   frame, integ, before, log, lastCells>>

update_particles ==
    /\ IsNext("update_particles")
    /\ integ' = [e \in Entities |-> Integrate(particles[e], window_size, delta)]
    /\ particles' = [e \in Entities |-> [pos |-> integ'[e].pos, vel |-> integ'[e].vel]]
    /\ pc' = pc + 1
    /\ UNCHANGED <<window_size, cells, previous_velocities, delta,
                   resize_events, query, schedule, frame, before, log, lastCells>>

update_grid ==
    /\ IsNext("update_grid")
    /\ LET snapshot  == [c \in DOMAIN cells |-> cells[c].velocity]
           cleared   == GridClear(cells)
           scattered == Scatter(cleared.cells, particles, query)
       IN  /\ previous_velocities' = cleared.previous_velocities
           /\ cells' = Smooth(scattered, snapshot)
    /\ lastCells' = cells
    /\ pc' = pc + 1
    /\ UNCHANGED <<window_size, particles, delta, resize_events, query, schedule,
                   frame, integ, before, log>>

resolve_collisions ==
    /\ IsNext("resolve_collisions")
    /\ LET r == ResolveLoop(particles, {}, <<>>, IterCombinations(query))
       IN  /\ particles' = r.particles
           /\ log' = r.log
    /\ before' = particles
    /\ pc' = pc + 1
    /\ UNCHANGED <<window_size, cells, previous_velocities, delta,
                   resize_events, query, schedule, frame, integ, lastCells>>

\* The runner's next iteration: the clock advances, window events arrive,
\* and the Update schedule starts again.
NextFrame ==
    /\ pc = Len(schedule)
    /\ frame < MaxFrames
    /\ frame' = frame + 1
    /\ delta' \in DeltaInputs
    /\ resize_events' \in {resize_events \o ev : ev \in ResizeInputs}
    /\ pc' = 0
    /\ UNCHANGED <<window_size, particles, cells, previous_velocities, query,
                   schedule, integ, before, log, lastCells>>

Next ==
    \/ update_window_size
    \/ update_particles
    \/ update_grid
    \/ resolve_collisions
    \/ NextFrame

Spec == Init /\ [][Next]_vars

(***************************************************************************)
(* Properties                                                              *)
(***************************************************************************)

Integrator == "update_particles"

GridTransfer == "update_grid"

CollisionResolver == "resolve_collisions"

\* The three stages in the order in which schedule runs them.
StageOrder == SelectSeq(schedule, LAMBDA s : s \in Range(Stages))

\* System s is the one that ran last.
Last(s) == pc > 0 /\ schedule[pc] = s

FrameDone == pc = Len(schedule)

\* C1: at the end of every frame whose stages ran in the order Integrator,
\* Grid Transfer, Collision Resolver, every particle lies within the
\* current half extents of the world: |x| <= width and |y| <= height.
C1_InsideWorldAfterTick ==
    (FrameDone /\ StageOrder = <<Integrator, GridTransfer, CollisionResolver>>)
        => \A e \in Entities :
              /\ Abs(particles[e].pos.x) <= window_size.width
              /\ Abs(particles[e].pos.y) <= window_size.height

\* C2: every cell of the grid has mass >= 0.
C2_MassNonNegative == \A c \in DOMAIN cells : cells[c].mass >= 0

\* The base cell of a particle and the 3x3 cells around a cell.
BaseCell(e) == WorldToCell(particles[e].pos)

Footprint(c) == {<<c[1] + dx, c[2] + dy>> : dx \in -1 .. 1, dy \in -1 .. 1}

\* C3: right after a Grid Transfer the keys of cells are exactly the union
\* of the 3x3 neighbourhoods of the particles' base cells.
C3_CellsAreFootprints ==
    Last(GridTransfer)
        => DOMAIN cells = UNION {Footprint(BaseCell(e)) : e \in Entities}

\* A second Grid Transfer has just dropped a cell of the previous one and
\* holds a touched cell of mass zero.
C3_Witness ==
    /\ Last(GridTransfer)
    /\ DOMAIN lastCells \ DOMAIN cells # {}
    /\ \E c \in DOMAIN cells : cells[c].mass = 0

Overlapping(pa, pb) == Length(VSub(pb.pos, pa.pos)) < Radius + Radius

\* C4: a processed pair with distinct centres closer than rA + rB ends at
\* distance rA + rB, to within the rounding of the arithmetic (0.005), with
\* the sum of the two centres (twice the midpoint) unchanged.
C4_SeparatedSymmetrically ==
    \A i \in DOMAIN log :
        LET r == log[i]
        IN  (r.pa.pos # r.pb.pos /\ Overlapping(r.pa, r.pb))
                => /\ Abs(Length(VSub(r.qb.pos, r.qa.pos)) - (Radius + Radius)) <= 5
                   /\ VAdd(r.qa.pos, r.qb.pos) = VAdd(r.pa.pos, r.pb.pos)

\* A processed pair overlapped by more than 1.0 on a contact normal that is
\* not parallel to an axis.
C4_Witness ==
    \E i \in DOMAIN log :
        LET r == log[i]
            d == VSub(r.pb.pos, r.pa.pos)
        IN  d.x # 0 /\ d.y # 0 /\ Length(d) < Radius + Radius - Q

RECURSIVE SumVel(_, _)
\* The sum of the velocities of the particles ps over the entity set S.
SumVel(ps, S) ==
    IF S = {} THEN ZERO
    ELSE LET e == CHOOSE x \in S : TRUE
         IN  VAdd(ps[e].vel, SumVel(ps, S \ {e}))

\* C5: a pass of the Collision Resolver leaves the sum of all particle
\* velocities as it found it, and so does every pair it processes.
C5_VelocitySumConserved ==
    /\ Last(CollisionResolver)
            => SumVel(particles, Entities) = SumVel(before, Entities)
    /\ \A i \in DOMAIN log :
            VAdd(log[i].qa.vel, log[i].qb.vel) = VAdd(log[i].pa.vel, log[i].pb.vel)

\* The pass applied an impulse to two pairs at least.
C5_Witness ==
    /\ Last(CollisionResolver)
    /\ Cardinality({i \in DOMAIN log : log[i].qa.vel # log[i].pa.vel}) >= 2

\* C6: a processed pair at distance >= rA + rB is left as it was, and a
\* pass that finds no overlapping pair leaves every particle as it was.
C6_NonOverlapUntouched ==
    /\ \A i \in DOMAIN log :
            ~Overlapping(log[i].pa, log[i].pb)
                => log[i].qa = log[i].pa /\ log[i].qb = log[i].pb
    /\ (Last(CollisionResolver)
            /\ \A a, b \in Entities : a # b => ~Overlapping(before[a], before[b]))
                => particles = before

\* A pass over moving particles that found no overlapping pair.
C6_Witness ==
    /\ Last(CollisionResolver)
    /\ log # <<>>
    /\ \A a, b \in Entities : a # b => ~Overlapping(before[a], before[b])
    /\ \E e \in Entities : before[e].vel # ZERO

C8_ReflectedAndDamped ==
    Last(Integrator)
        => \A e \in Entities :
              /\ integ[e].bx
                    => particles[e].vel.x = MulQ(integ[e].pre.x, -BounceDampening)
              /\ integ[e].by
                    => particles[e].vel.y = MulQ(integ[e].pre.y, -BounceDampening)

Sign(a) == IF a > 0 THEN 1 ELSE IF a < 0 THEN -1 ELSE 0

\* C8 as amended: the same, unless the rest deadband zeroed the vertical
\* component or the speed clamp rescaled the velocity; a clamped component
\* keeps the reflected sign and is no larger than the reflected value.
C8_ReflectedUnlessDeadbandOrClamp ==
    Last(Integrator)
        => \A e \in Entities :
              LET rx == MulQ(integ[e].pre.x, -BounceDampening)
                  ry == MulQ(integ[e].pre.y, -BounceDampening)
                  v  == particles[e].vel
              IN  /\ (integ[e].bx /\ ~integ[e].clamped) => v.x = rx
                  /\ (integ[e].by /\ ~integ[e].clamped /\ ~integ[e].dead) => v.y = ry
                  /\ integ[e].dead => (v.y = 0 /\ Abs(ry) < Deadband)
                  /\ (integ[e].bx /\ integ[e].clamped)
                        => (Sign(v.x) \in {0, Sign(rx)} /\ Abs(v.x) <= Abs(rx))
                  /\ (integ[e].by /\ integ[e].clamped /\ ~integ[e].dead)
                        => (Sign(v.y) \in {0, Sign(ry)} /\ Abs(v.y) <= Abs(ry))

\* A particle moving on both axes bounced on both, outside the deadband and
\* below the speed clamp.
C8_Witness ==
    /\ Last(Integrator)
    /\ \E e \in Entities :
          /\ integ[e].bx /\ integ[e].by
          /\ ~integ[e].dead /\ ~integ[e].clamped
          /\ integ[e].pre.x # 0 /\ integ[e].pre.y # 0

\* C9: in every frame the Grid Transfer runs after the Integrator and the
\* Collision Resolver after the Grid Transfer.
C9_StagesInOrder ==
    /\ GridTransfer \in Ran => Integrator \in Ran
    /\ CollisionResolver \in Ran => GridTransfer \in Ran

\* The weight with which particle e scatters onto cell c: that of the one
\* neighbour (gx, gy) of its base cell that is c, nothing outside its 3x3.
WeightOn(e, c) ==
    LET b == BaseCell(e)
    IN  IF c \in Footprint(b)
        THEN Weight(particles[e].pos, c[1] - b[1] + 2, c[2] - b[2] + 2)
        ELSE 0

RECURSIVE RawVelocity(_, _)
\* The velocity the scatter of the entities S accumulates on cell c.
RawVelocity(c, S) ==
    IF S = {} THEN ZERO
    ELSE LET e == CHOOSE x \in S : TRUE
         IN  VAdd(VScale(particles[e].vel, WeightOn(e, c)), RawVelocity(c, S \ {e}))

PreviousVelocity(c) ==
    IF c \in DOMAIN lastCells THEN lastCells[c].velocity ELSE ZERO

\* C10: right after a Grid Transfer a cell with mass > 0 holds
\* (scattered velocity + its velocity after the previous Grid Transfer, or
\* zero) * 0.5 + g, any other cell holds its scattered velocity, and
\* previous_velocities holds the velocities of the previous Grid Transfer.
C10_SmoothedWithPrevious ==
    Last(GridTransfer)
        => /\ \A c \in DOMAIN cells :
                LET raw == RawVelocity(c, Entities)
                IN  cells[c].velocity =
                        IF cells[c].mass > 0
                        THEN VAdd(VScale(VAdd(raw, PreviousVelocity(c)), Q \div 2),
                                  Gravity)
                        ELSE raw
           /\ DOMAIN previous_velocities = DOMAIN lastCells
           /\ \A c \in DOMAIN lastCells :
                previous_velocities[c] = lastCells[c].velocity

\* A second Grid Transfer: one cell with mass > 0 had a velocity before,
\* another with mass > 0 is new, and a third has a mass that is not > 0 and
\* a scattered velocity.
C10_Witness ==
    /\ Last(GridTransfer)
    /\ \E c \in DOMAIN cells \cap DOMAIN lastCells :
          cells[c].mass > 0 /\ lastCells[c].velocity # ZERO
    /\ \E c \in DOMAIN cells \ DOMAIN lastCells : cells[c].mass > 0
    /\ \E c \in DOMAIN cells : cells[c].mass <= 0 /\ cells[c].velocity # ZERO

====
